---- MODULE Spec2Model ----
(***************************************************************************)
(* The calendar service of src/main.py: the request handlers               *)
(* create_calendar, list_calendars, update_calendar_page and get_calendar  *)
(* over the "calendar" collection of a document store.                     *)
(*                                                                         *)
(* The collection is shared by the server's workers.  A handler that makes *)
(* one store call is one step.  update_calendar_page makes two store calls *)
(* (find_one at line 131, update_one at line 147), so it is two steps, and *)
(* the steps of different workers interleave between them.  (A handler has *)
(* no await, so one event loop runs it to its end: the interleaving is     *)
(* that of several workers, or servers, on the one collection.)            *)
(*                                                                         *)
(* Spec is every handler on every request of the input sets.  SpecCreate,  *)
(* SpecUpdate, SpecLookup and SpecFrame are the same handlers on the       *)
(* requests one group of properties is about.                              *)
(***************************************************************************)
EXTENDS Integers, Sequences, FiniteSets

\* ------------------------------------------------------------- bounds
\* Documents the collection may hold, and updatePage calls that may reach
\* the store (every such call writes once, so this also caps the clock).
MaxCalendars == 2
MaxUpdates == 2

\* ---------------------------------------------------------- constants
\* A bson ObjectId prints as 24 hexadecimal characters.
OidLen == 24
\* list_calendars(limit: int = 50)
DefaultLimit == 50

Workers == {1, 2}

\* Python's None, and a key a dict does not hold.
None == "<None>"
Absent == "<absent>"

\* ----------------------------------------------------- request inputs
Titles == {"Team 2025"}
Years == {2025}
StartMonths == {0, 1, 4, 13}
Styles == {"classic"}
Owners == {None}
Payloads ==
  [title : Titles, year : Years, start_month : StartMonths,
   style : Styles, owner : Owners]

MonthInputs == {0, 1, 12, 13}
ImageUrls == {None, "/uploads/x.jpg"}
Notes == {None, "n1"}
Limits == {1, DefaultLimit}

\* Identifier strings, as sequences of characters: 23 zeros and a last
\* character, and one string that is too short.
PadStr(c) == [i \in 1..OidLen |-> IF i < OidLen THEN "0" ELSE c]
CalendarIds ==
  {PadStr(c) : c \in {"a", "A", "b", "g"}} \cup {[i \in 1..(OidLen - 1) |-> "0"]}

\* ------------------------------------------------------ bson.ObjectId
HexChars ==
  {"0", "1", "2", "3", "4", "5", "6", "7", "8", "9",
   "a", "b", "c", "d", "e", "f", "A", "B", "C", "D", "E", "F"}

\* int(c, 16) and its inverse "%x" % d.
HexVal[c \in HexChars] ==
  CASE c = "0" -> 0 [] c = "1" -> 1 [] c = "2" -> 2 [] c = "3" -> 3
    [] c = "4" -> 4 [] c = "5" -> 5 [] c = "6" -> 6 [] c = "7" -> 7
    [] c = "8" -> 8 [] c = "9" -> 9
    [] c \in {"a", "A"} -> 10 [] c \in {"b", "B"} -> 11
    [] c \in {"c", "C"} -> 12 [] c \in {"d", "D"} -> 13
    [] c \in {"e", "E"} -> 14 [] c \in {"f", "F"} -> 15

HexDigit[d \in 0..15] ==
  CASE d = 0 -> "0" [] d = 1 -> "1" [] d = 2 -> "2" [] d = 3 -> "3"
    [] d = 4 -> "4" [] d = 5 -> "5" [] d = 6 -> "6" [] d = 7 -> "7"
    [] d = 8 -> "8" [] d = 9 -> "9" [] d = 10 -> "a" [] d = 11 -> "b"
    [] d = 12 -> "c" [] d = 13 -> "d" [] d = 14 -> "e" [] d = 15 -> "f"

\* ObjectId(calendar_id) raises unless the string is 24 hex characters.
ObjectIdValid(s) == Len(s) = OidLen /\ \A i \in 1..Len(s) : s[i] \in HexChars

\* The identifier's value: its 24 hexadecimal digits.
ObjectId(s) == [i \in 1..Len(s) |-> HexVal[s[i]]]

\* str(oid): lower-case hexadecimal.
OidStr(oid) == [i \in 1..Len(oid) |-> HexDigit[oid[i]]]

\* The identifier the store gives the n-th inserted document.
NewObjectId(n) == [i \in 1..OidLen |-> IF i < OidLen THEN 0 ELSE 9 + n]

\* ------------------------------------------------------------ schemas
\* CalendarPage(month=month): image_url and note default to None.
CalendarPage(month) == [month |-> month, image_url |-> None, note |-> None]

\* Calendar(...) raises unless 1900 <= year <= 3000 and 1 <= start_month <= 12.
CalendarValid(payload) ==
  /\ payload.year >= 1900 /\ payload.year <= 3000
  /\ payload.start_month >= 1 /\ payload.start_month <= 12

\* Python's %: the result has the sign of the (positive) divisor.
PyMod(a, n) == IF a >= 0 THEN a % n ELSE (n - ((-a) % n)) % n

\* ----------------------------------------------------------- variables
VARIABLES
  db,     \* whether the module's db handle is set (db is not None)
  store,  \* the "calendar" collection: documents in insertion order
  clock,  \* datetime.utcnow(), as the number of the next write
  proc,   \* per worker: the frame of its update_calendar_page call
  last    \* the latest response a handler returned, with its request

vars == <<db, store, clock, proc, last>>

Idle == [pc |-> "idle"]

NoCall == [op |-> "none", status |-> 0]

Init ==
  /\ db \in BOOLEAN
  /\ store = <<>>
  /\ clock = 1
  /\ proc = [w \in Workers |-> Idle]
  /\ last = NoCall

\* ------------------------------------------------------- the collection
Ids == {store[k]._id : k \in 1..Len(store)}

\* find_one({"_id": oid}): the first document with that _id.
FindOne(oid) == store[CHOOSE k \in 1..Len(store) : store[k]._id = oid]

\* Calls that have read the collection: written, or about to write.
InFlight == {w \in Workers : proc[w].pc = "write"}

\* ------------------------------------------------- the database module
\* create_document("calendar", cal): one insert; the document holds the
\* model's fields and the identifier the store assigns.
create_document(cal) ==
  [_id |-> NewObjectId(Len(store) + 1),
   title |-> cal.title, year |-> cal.year, start_month |-> cal.start_month,
   style |-> cal.style, owner |-> cal.owner, pages |-> cal.pages,
   updated_at |-> 0]

\* get_documents("calendar", {}, limit): the first `limit` documents.
get_documents(limit) ==
  SubSeq(store, 1, IF limit < Len(store) THEN limit ELSE Len(store))

\* d["id"] = str(d.pop("_id"))
DocOut(d) ==
  [id |-> OidStr(d._id),
   title |-> d.title, year |-> d.year, start_month |-> d.start_month,
   style |-> d.style, owner |-> d.owner, pages |-> d.pages,
   updated_at |-> d.updated_at]

\* ------------------------------------------------------ create_calendar
\* Mutant: the rotation without the "- 1".
InitPagesOffByOne(start_month) ==
  [k \in 1..12 |-> CalendarPage(PyMod(start_month + (k - 1), 12) + 1)]

\* Mutant: range(11).
InitPagesEleven(start_month) ==
  [k \in 1..11 |-> CalendarPage(PyMod(start_month - 1 + (k - 1), 12) + 1)]

\* for i in range(12): month = ((start_month - 1 + i) % 12) + 1
InitPages(start_month) ==
  [k \in 1..12 |-> CalendarPage(PyMod(start_month - 1 + (k - 1), 12) + 1)]

create_calendar(payload) ==
  LET pages == InitPages(payload.start_month)
      cal == [title |-> payload.title, year |-> payload.year,
              start_month |-> payload.start_month, style |-> payload.style,
              pages |-> pages, owner |-> payload.owner]
      rsp(status, detail, id) ==
        [op |-> "createCalendar", status |-> status, detail |-> detail,
         payload |-> payload, id |-> id]
  IN  /\ \A k \in 1..Len(pages) : pages[k].month \in 1..12
      /\ IF ~CalendarValid(payload)
           THEN /\ last' = rsp(500, "ValidationError", <<>>)
                /\ UNCHANGED store
         ELSE IF ~db
           THEN /\ last' = rsp(500, "Database not available", <<>>)
                /\ UNCHANGED store
         ELSE /\ Len(store) < MaxCalendars
              /\ store' = Append(store, create_document(cal))
              /\ last' = rsp(200, "ok", OidStr(create_document(cal)._id))
      /\ UNCHANGED <<db, clock, proc>>

\* ------------------------------------------------------- list_calendars
list_calendars(limit) ==
  /\ IF ~db
       THEN last' = [op |-> "listCalendars", status |-> 500,
                     detail |-> "Database not available", limit |-> limit,
                     docs |-> <<>>]
       ELSE last' = [op |-> "listCalendars", status |-> 200, detail |-> "ok",
                     limit |-> limit,
                     docs |-> [k \in 1..Len(get_documents(limit)) |->
                                 DocOut(get_documents(limit)[k])]]
  /\ UNCHANGED <<db, store, clock, proc>>

\* Mutant: the lookup compares the identifier strings, without parsing.
get_calendar_by_string(calendar_id) ==
  LET rsp(status, detail, doc) ==
        [op |-> "getCalendar", status |-> status, detail |-> detail,
         calendar_id |-> calendar_id, doc |-> doc]
  IN  /\ IF ~db
           THEN last' = rsp(500, "Database not available", <<>>)
         ELSE IF ~ObjectIdValid(calendar_id)
           THEN last' = rsp(400, "Invalid calendar id", <<>>)
         ELSE IF \A k \in 1..Len(store) : OidStr(store[k]._id) # calendar_id
           THEN last' = rsp(404, "Calendar not found", <<>>)
         ELSE last' = rsp(200, "ok", <<DocOut(FindOne(ObjectId(calendar_id)))>>)
      /\ UNCHANGED <<db, store, clock, proc>>

\* --------------------------------------------------------- get_calendar
get_calendar(calendar_id) ==
  LET rsp(status, detail, doc) ==
        [op |-> "getCalendar", status |-> status, detail |-> detail,
         calendar_id |-> calendar_id, doc |-> doc]
  IN  /\ IF ~db
           THEN last' = rsp(500, "Database not available", <<>>)
         ELSE IF ~ObjectIdValid(calendar_id)
           THEN last' = rsp(400, "Invalid calendar id", <<>>)
         ELSE IF ObjectId(calendar_id) \notin Ids
           THEN last' = rsp(404, "Calendar not found", <<>>)
         ELSE last' = rsp(200, "ok", <<DocOut(FindOne(ObjectId(calendar_id)))>>)
      /\ UNCHANGED <<db, store, clock, proc>>

\* -------------------------------------------------- update_calendar_page
\* Mutant: the db check before the month check.
UpdateErrorDbFirst(calendar_id, month) ==
  IF ~db THEN <<500, "Database not available">>
  ELSE IF month < 1 \/ month > 12 THEN <<400, "Month must be 1..12">>
  ELSE IF ~ObjectIdValid(calendar_id) THEN <<400, "Invalid calendar id">>
  ELSE IF ObjectId(calendar_id) \notin Ids THEN <<404, "Calendar not found">>
  ELSE <<200, "ok">>

\* Mutant: the identifier parsed before the db check.
UpdateErrorIdFirst(calendar_id, month) ==
  IF month < 1 \/ month > 12 THEN <<400, "Month must be 1..12">>
  ELSE IF ~ObjectIdValid(calendar_id) THEN <<400, "Invalid calendar id">>
  ELSE IF ~db THEN <<500, "Database not available">>
  ELSE IF ObjectId(calendar_id) \notin Ids THEN <<404, "Calendar not found">>
  ELSE <<200, "ok">>

\* The error the checks of lines 121-133 raise, first failing check first;
\* <<200, "ok">> when the call reaches the page update.
UpdateError(calendar_id, month) ==
  IF month < 1 \/ month > 12 THEN <<400, "Month must be 1..12">>
  ELSE IF ~db THEN <<500, "Database not available">>
  ELSE IF ~ObjectIdValid(calendar_id) THEN <<400, "Invalid calendar id">>
  ELSE IF ObjectId(calendar_id) \notin Ids THEN <<404, "Calendar not found">>
  ELSE <<200, "ok">>

\* Mutant: the comparison never matches (the month compared as a string).
FindIndexNeverMatches(pages, month) == 0

\* next((i for i, p in enumerate(pages) if p.get("month") == month), None),
\* 1-based; 0 for None.
FindIndex(pages, month) ==
  IF \E i \in 1..Len(pages) : pages[i].month = month
    THEN CHOOSE i \in 1..Len(pages) :
           /\ pages[i].month = month
           /\ \A j \in 1..(i - 1) : pages[j].month # month
    ELSE 0

\* Mutant: replace instead of patch, a field the payload omits is set to None.
UpsertPageReplace(pages, month, image_url, note) ==
  LET found == FindIndex(pages, month)
      ps == IF found = 0
              THEN Append(pages, [month |-> month, image_url |-> Absent,
                                  note |-> Absent])
              ELSE pages
      idx == IF found = 0 THEN Len(ps) ELSE found
  IN  [ps EXCEPT ![idx] = [month |-> ps[idx].month, image_url |-> image_url,
                           note |-> note]]

\* Lines 137-145: the page for `month` (appended when none has it) gets the
\* fields of the payload that are not None.
UpsertPage(pages, month, image_url, note) ==
  LET found == FindIndex(pages, month)
      ps == IF found = 0
              THEN Append(pages, [month |-> month, image_url |-> Absent,
                                  note |-> Absent])
              ELSE pages
      idx == IF found = 0 THEN Len(ps) ELSE found
      p1 == IF image_url # None
              THEN [ps[idx] EXCEPT !.image_url = image_url] ELSE ps[idx]
      p2 == IF note # None THEN [p1 EXCEPT !.note = note] ELSE p1
  IN  [ps EXCEPT ![idx] = p2]

\* Lines 119-145: the checks, find_one, and the update of the local pages.
\* A call that passes the checks is run by a worker w, which holds the
\* handler's locals until its update_one.
update_calendar_page(calendar_id, month, image_url, note) ==
  LET err == UpdateError(calendar_id, month)
      oid == ObjectId(calendar_id)
      doc == FindOne(oid)
  IN  /\ IF err[1] # 200
           THEN /\ last' = [op |-> "updatePage", status |-> err[1],
                            detail |-> err[2], calendar_id |-> calendar_id,
                            month |-> month]
                /\ UNCHANGED proc
           ELSE /\ (clock - 1) + Cardinality(InFlight) < MaxUpdates
                /\ \E w \in Workers :
                     /\ proc[w].pc = "idle"
                     /\ proc' = [proc EXCEPT ![w] =
                          [pc |-> "write", oid |-> oid, month |-> month,
                           image_url |-> image_url, note |-> note,
                           doc |-> [doc EXCEPT !.pages =
                             UpsertPage(doc.pages, month, image_url, note)]]]
                /\ UNCHANGED last
      /\ UNCHANGED <<db, store, clock>>

\* Mutant: update_many with an empty filter.
SetPagesAll(oid, pages, now) ==
  [k \in 1..Len(store) |->
     [store[k] EXCEPT !.pages = pages, !.updated_at = now]]

\* update_one({"_id": oid}, {"$set": {"pages": pages, "updated_at": now}})
SetPages(oid, pages, now) ==
  [k \in 1..Len(store) |->
     IF store[k]._id = oid
       THEN [store[k] EXCEPT !.pages = pages, !.updated_at = now]
       ELSE store[k]]

\* Mutant: a write from a stale read is refused.
update_one_versioned(w) ==
  /\ proc[w].pc = "write"
  /\ IF proc[w].doc.updated_at = FindOne(proc[w].oid).updated_at
       THEN /\ store' = SetPages(proc[w].oid, proc[w].doc.pages, clock)
            /\ last' = [op |-> "updatePage", status |-> 200, detail |-> "ok",
                        oid |-> proc[w].oid, month |-> proc[w].month,
                        image_url |-> proc[w].image_url,
                        note |-> proc[w].note, worker |-> w]
       ELSE /\ store' = store
            /\ last' = [op |-> "updatePage", status |-> 409,
                        detail |-> "Conflict",
                        calendar_id |-> OidStr(proc[w].oid),
                        month |-> proc[w].month]
  /\ clock' = clock + 1
  /\ proc' = [proc EXCEPT ![w] = Idle]
  /\ UNCHANGED db

\* Lines 147-149: the write of the whole pages array, and the response.
update_one(w) ==
  /\ proc[w].pc = "write"
  /\ store' = SetPages(proc[w].oid, proc[w].doc.pages, clock)
  /\ clock' = clock + 1
  /\ proc' = [proc EXCEPT ![w] = Idle]
  /\ last' = [op |-> "updatePage", status |-> 200, detail |-> "ok",
              oid |-> proc[w].oid, month |-> proc[w].month,
              image_url |-> proc[w].image_url, note |-> proc[w].note,
              worker |-> w]
  /\ UNCHANGED db

\* ---------------------------------------------------------------- Next
\* Every handler, on every request of the input sets.
Next ==
  \/ \E payload \in Payloads : create_calendar(payload)
  \/ \E limit \in Limits : list_calendars(limit)
  \/ \E calendar_id \in CalendarIds : get_calendar(calendar_id)
  \/ \E calendar_id \in CalendarIds, month \in MonthInputs,
        image_url \in ImageUrls, note \in Notes :
       update_calendar_page(calendar_id, month, image_url, note)
  \/ \E w \in Workers : update_one(w)

Spec == Init /\ [][Next]_vars

\* The page updates alone: creation, and updatePage with every payload on
\* requests that name a well-formed identifier and a month in 1..12, for
\* calendars that start in April.
AprilPayloads ==
  [title : Titles, year : Years, start_month : {4}, style : Styles,
   owner : Owners]
WellFormedIds == {PadStr("a"), PadStr("b")}
ValidMonths == {1, 12}

NextUpdate ==
  \/ \E payload \in AprilPayloads : create_calendar(payload)
  \/ \E calendar_id \in WellFormedIds, month \in ValidMonths,
        image_url \in ImageUrls, note \in Notes :
       update_calendar_page(calendar_id, month, image_url, note)
  \/ \E w \in Workers : update_one(w)

SpecUpdate == Init /\ [][NextUpdate]_vars

\* Every handler on every identifier and month, with one payload, for
\* calendars that start in April: the lookups and the failures.
NextLookup ==
  \/ \E payload \in AprilPayloads : create_calendar(payload)
  \/ \E limit \in Limits : list_calendars(limit)
  \/ \E calendar_id \in CalendarIds : get_calendar(calendar_id)
  \/ \E calendar_id \in CalendarIds, month \in MonthInputs :
       update_calendar_page(calendar_id, month, "/uploads/x.jpg", None)
  \/ \E w \in Workers : update_one(w)

SpecLookup == Init /\ [][NextLookup]_vars

\* Every handler on well-formed requests, with one payload, for calendars
\* of different start months: what each handler leaves alone.
NextFrame ==
  \/ \E payload \in Payloads : create_calendar(payload)
  \/ \E limit \in Limits : list_calendars(limit)
  \/ \E calendar_id \in WellFormedIds : get_calendar(calendar_id)
  \/ \E calendar_id \in WellFormedIds, month \in ValidMonths :
       update_calendar_page(calendar_id, month, "/uploads/x.jpg", None)
  \/ \E w \in Workers : update_one(w)

SpecFrame == Init /\ [][NextFrame]_vars

\* Creation alone, on the requests of every start month, valid or not.
AllPayloads ==
  [title : {""}, year : {1900}, start_month : 0..13,
   style : Styles, owner : Owners]

NextCreate ==
  \/ \E payload \in AllPayloads : create_calendar(payload)
  \/ \E calendar_id \in CalendarIds : get_calendar(calendar_id)

SpecCreate == Init /\ [][NextCreate]_vars

\* ======================================================== properties
\* The document with identifier oid in a collection st.
DocIn(st, oid) == st[CHOOSE k \in 1..Len(st) : st[k]._id = oid]

Populated(v) == v # None /\ v # Absent

\* The step is worker w's update_one.
Writes(w) == proc[w].pc = "write" /\ proc'[w].pc = "idle"

\* No call has written w's calendar since w read it.
Fresh(w) == proc[w].doc.updated_at = FindOne(proc[w].oid).updated_at

OkUpdate(r) == r.op = "updatePage" /\ r.status = 200
FailedUpdate(r) == r.op = "updatePage" /\ r.status # 200

\* C1: a creation request with start_month in 1..12 and a valid year, the
\* store reachable, succeeds and stores twelve pages, page i (from 0) of
\* month ((start_month - 1 + i) mod 12) + 1, each with image_url and note
\* null: the months 1..12, each once, from start_month on.
C1_CreateStoresRotatedPages ==
  last.op = "createCalendar" =>
    /\ (db /\ last.payload.start_month \in 1..12) => last.status = 200
    /\ last.status = 200 =>
         LET d == FindOne(ObjectId(last.id))
         IN  /\ Len(d.pages) = 12
             /\ \A i \in 0..11 :
                  d.pages[i + 1] =
                    [month |-> ((last.payload.start_month - 1 + i) % 12) + 1,
                     image_url |-> None, note |-> None]
             /\ d.pages[1].month = last.payload.start_month
             /\ \A m \in 1..12 :
                  Cardinality({k \in 1..12 : d.pages[k].month = m}) = 1

\* A calendar that starts in December was stored: its second page is January.
C1_Witness ==
  /\ last.op = "createCalendar" /\ last.status = 200
  /\ last.payload.start_month = 12
  /\ FindOne(ObjectId(last.id)).pages[2].month = 1

\* C2: an update_one whose call read the calendar as it is now stored sets
\* the target page's image_url only when the call gave one and its note only
\* when the call gave one; an omitted field and every other page stay as
\* they were stored before the write.
C2_PartialUpdate ==
  [][\A w \in Workers :
       (Writes(w) /\ Fresh(w)) =>
         LET old == FindOne(proc[w].oid).pages
             new == DocIn(store', proc[w].oid).pages
         IN  /\ Len(new) = Len(old)
             /\ \A i \in 1..Len(old) :
                  IF old[i].month = proc[w].month
                    THEN /\ new[i].month = old[i].month
                         /\ new[i].image_url =
                              IF proc[w].image_url # None
                                THEN proc[w].image_url ELSE old[i].image_url
                         /\ new[i].note =
                              IF proc[w].note # None
                                THEN proc[w].note ELSE old[i].note
                    ELSE new[i] = old[i]]_vars

\* A note-only update has returned and the page holds the image it had.
C2_Witness ==
  /\ OkUpdate(last) /\ last.image_url = None /\ last.note # None
  /\ \E i \in 1..12 :
       LET p == FindOne(last.oid).pages[i]
       IN  p.month = last.month /\ Populated(p.image_url) /\ p.note = last.note

\* C3: when the latest response is the success of an updatePage and the next
\* write is that of a call with the same calendar, month, image_url and note
\* that read the calendar after it, the write leaves the stored pages as the
\* first call left them.
C3_UpdateIdempotent ==
  [][\A w \in Workers :
       (/\ Writes(w) /\ Fresh(w)
        /\ OkUpdate(last)
        /\ last.oid = proc[w].oid /\ last.month = proc[w].month
        /\ last.image_url = proc[w].image_url /\ last.note = proc[w].note)
       => DocIn(store', proc[w].oid).pages = FindOne(proc[w].oid).pages]_vars

\* The same call has been made again after the first returned, and has read.
C3_Witness ==
  \E w \in Workers :
    /\ proc[w].pc = "write" /\ Fresh(w)
    /\ OkUpdate(last)
    /\ last.oid = proc[w].oid /\ last.month = proc[w].month
    /\ last.image_url = proc[w].image_url /\ last.note = proc[w].note
    /\ last.image_url # None /\ last.note # None
    /\ FindOne(proc[w].oid).updated_at # 0

\* C4: an updatePage whose month is not in 1..12 fails with status 400,
\* "Month must be 1..12", whatever its calendar id and whether or not db is
\* set, and changes no stored calendar.
C4_MonthOutOfRange ==
  [][(last'.op = "updatePage" /\ last'.month \notin 1..12) =>
       /\ last'.status = 400 /\ last'.detail = "Month must be 1..12"
       /\ store' = store]_vars

\* Month 13, a malformed id and no db: still the month's error.
C4_Witness ==
  /\ FailedUpdate(last) /\ last.month = 13
  /\ ~db /\ ~ObjectIdValid(last.calendar_id)
  /\ last.status = 400 /\ last.detail = "Month must be 1..12"

\* C5: with db set, getCalendar fails with "Invalid calendar id" (400) on a
\* malformed id, with "Calendar not found" (404) on a well-formed id no
\* stored calendar has, and otherwise returns the stored calendar's title,
\* year, start_month, style, owner and pages with its identifier as the
\* lower-case hexadecimal string; in each case the store is unchanged.
C5_GetCalendar ==
  [][(last'.op = "getCalendar" /\ db) =>
       /\ store' = store
       /\ IF ~(/\ Len(last'.calendar_id) = OidLen
               /\ \A i \in 1..OidLen : last'.calendar_id[i] \in HexChars)
            THEN last'.status = 400 /\ last'.detail = "Invalid calendar id"
          ELSE IF \A k \in 1..Len(store) :
                    OidStr(store[k]._id) # OidStr(ObjectId(last'.calendar_id))
            THEN last'.status = 404 /\ last'.detail = "Calendar not found"
          ELSE /\ last'.status = 200
               /\ \E k \in 1..Len(store) :
                    LET d == store[k]
                        r == last'.doc[1]
                    IN  /\ r.id = OidStr(d._id)
                        /\ \A i \in 1..OidLen :
                             r.id[i] \in {"0", "1", "2", "3", "4", "5", "6", "7",
                                          "8", "9", "a", "b", "c", "d", "e", "f"}
                        /\ OidStr(ObjectId(last'.calendar_id)) = r.id
                        /\ r.title = d.title /\ r.year = d.year
                        /\ r.start_month = d.start_month /\ r.style = d.style
                        /\ r.owner = d.owner /\ r.pages = d.pages]_vars

\* A calendar with an updated page was fetched under the upper-case spelling
\* of its identifier, and came back with the lower-case one.
C5_Witness ==
  /\ last.op = "getCalendar" /\ last.status = 200
  /\ last.doc[1].id # last.calendar_id
  /\ \E i \in 1..12 : Populated(last.doc[1].pages[i].image_url)

\* C6: every update_one succeeds and leaves as the stored pages exactly the
\* pages its call read with its own change, whatever another call wrote to
\* the calendar in between.
C6_LastWriterWins ==
  [][\A w \in Workers :
       Writes(w) =>
         /\ OkUpdate(last') /\ last'.worker = w
         /\ DocIn(store', proc[w].oid).pages = proc[w].doc.pages]_vars

\* Two calls for different months read the same pages; one has written and
\* returned success, and the other is about to write pages without it.
C6_Witness ==
  \E w \in Workers :
    /\ proc[w].pc = "write" /\ ~Fresh(w)
    /\ OkUpdate(last) /\ last.worker # w
    /\ last.oid = proc[w].oid /\ last.month # proc[w].month
    /\ last.image_url # None /\ proc[w].image_url # None
    /\ \E i \in 1..12 :
         /\ FindOne(last.oid).pages[i].month = last.month
         /\ FindOne(last.oid).pages[i].image_url = last.image_url
         /\ proc[w].doc.pages[i].image_url = None
         /\ proc[w].doc.updated_at = 0 /\ FindOne(last.oid).updated_at = 1

\* C7: every stored calendar, and every calendar a call holds between its
\* read and its write, has twelve pages, page k of month
\* ((start_month - 1 + k - 1) mod 12) + 1: one page per month in the order of
\* creation, none appended.
C7_TwelvePages ==
  LET Canonical(d) ==
        /\ Len(d.pages) = 12
        /\ \A k \in 1..12 :
             d.pages[k].month = ((d.start_month - 1 + (k - 1)) % 12) + 1
        /\ \A m \in 1..12 :
             Cardinality({k \in 1..12 : d.pages[k].month = m}) = 1
  IN  /\ \A k \in 1..Len(store) : Canonical(store[k])
      /\ \A w \in Workers : proc[w].pc = "write" => Canonical(proc[w].doc)

\* Two writes done on a calendar that starts in April, a note on a page.
C7_Witness ==
  /\ clock = 3 /\ OkUpdate(last)
  /\ FindOne(last.oid).start_month = 4
  /\ \E i \in 1..12 : Populated(FindOne(last.oid).pages[i].note)

\* C8: a step keeps every stored calendar, with its identifier, title, year,
\* start_month, style and owner; it changes a stored calendar's pages or
\* updated_at only when it is the update_one of a call for that calendar's
\* identifier; and a calendar it adds has the fields of the creation request
\* and an identifier no stored calendar has.
C8_Frame ==
  [][/\ Len(store') >= Len(store)
     /\ \A k \in 1..Len(store) :
          /\ store'[k]._id = store[k]._id
          /\ store'[k].title = store[k].title
          /\ store'[k].year = store[k].year
          /\ store'[k].start_month = store[k].start_month
          /\ store'[k].style = store[k].style
          /\ store'[k].owner = store[k].owner
          /\ store'[k] # store[k] =>
               \E w \in Workers : Writes(w) /\ proc[w].oid = store[k]._id
     /\ Len(store') > Len(store) =>
          /\ Len(store') = Len(store) + 1
          /\ last'.op = "createCalendar" /\ last'.status = 200
          /\ LET d == store'[Len(store')]
             IN  /\ d._id \notin Ids
                 /\ OidStr(d._id) = last'.id
                 /\ d.title = last'.payload.title
                 /\ d.year = last'.payload.year
                 /\ d.start_month = last'.payload.start_month
                 /\ d.style = last'.payload.style
                 /\ d.owner = last'.payload.owner]_vars

\* Two calendars, the second written twice, the first as it was created.
C8_Witness ==
  /\ Len(store) = 2 /\ clock = 3
  /\ store[1].updated_at = 0 /\ store[1].pages = InitPages(store[1].start_month)
  /\ store[2].updated_at = 2 /\ store[2].pages # InitPages(store[2].start_month)
  /\ store[1].start_month # store[2].start_month

\* C9 as claimed: an updatePage with a month in 1..12 and a malformed
\* calendar id fails with "Invalid calendar id" in every store state.
C9_AsClaimed ==
  (/\ FailedUpdate(last) /\ last.month \in 1..12
   /\ ~ObjectIdValid(last.calendar_id))
  => (last.status = 400 /\ last.detail = "Invalid calendar id")

\* C9, amended: a failing updatePage reports the first of: month not in
\* 1..12 (400), db not set (500), malformed calendar id (400), no such
\* calendar (404); it changes no stored calendar; and a call that passes them
\* all has a month in 1..12, db set and a stored calendar.
C9_ErrorOrder ==
  [][/\ FailedUpdate(last') =>
          /\ store' = store
          /\ IF last'.month \notin 1..12
               THEN last'.status = 400 /\ last'.detail = "Month must be 1..12"
             ELSE IF ~db
               THEN last'.status = 500 /\ last'.detail = "Database not available"
             ELSE IF ~(/\ Len(last'.calendar_id) = OidLen
                       /\ \A i \in 1..OidLen : last'.calendar_id[i] \in HexChars)
               THEN last'.status = 400 /\ last'.detail = "Invalid calendar id"
             ELSE /\ last'.status = 404 /\ last'.detail = "Calendar not found"
                  /\ ObjectId(last'.calendar_id) \notin Ids
     /\ \A w \in Workers :
          proc'[w].pc = "write" =>
            db /\ proc'[w].month \in 1..12 /\ proc'[w].oid \in Ids]_vars

\* In-range month, malformed id, db not set: "Database not available".
C9_Witness ==
  /\ FailedUpdate(last) /\ last.month \in 1..12
  /\ ~ObjectIdValid(last.calendar_id) /\ ~db
  /\ last.status = 500 /\ last.detail = "Database not available"

\* C10 as claimed: over any interleaving, a stored page's image_url, and its
\* note, once not null stays not null.
C10_AsClaimed ==
  [][\A k \in 1..Len(store) : \A i \in 1..Len(store[k].pages) :
       /\ Populated(store[k].pages[i].image_url) =>
            Populated(store'[k].pages[i].image_url)
       /\ Populated(store[k].pages[i].note) =>
            Populated(store'[k].pages[i].note)]_vars

\* C10, amended: a stored page's image_url or note goes from not null to
\* null only by the update_one of a call that read the calendar before
\* another call wrote it.
C10_OnlyStaleWritesEmpty ==
  [][\A k \in 1..Len(store) : \A i \in 1..Len(store[k].pages) :
       (/\ store'[k].pages # store[k].pages
        /\ \/ /\ Populated(store[k].pages[i].image_url)
              /\ ~Populated(store'[k].pages[i].image_url)
           \/ /\ Populated(store[k].pages[i].note)
              /\ ~Populated(store'[k].pages[i].note))
       => \E w \in Workers :
            /\ Writes(w) /\ proc[w].oid = store[k]._id /\ ~Fresh(w)]_vars

\* A populated page has come through a later write for another month.
C10_Witness ==
  /\ OkUpdate(last) /\ clock = 3
  /\ FindOne(last.oid).updated_at = 2
  /\ \E i \in 1..12 :
       /\ FindOne(last.oid).pages[i].month # last.month
       /\ Populated(FindOne(last.oid).pages[i].image_url)

====
